---- MODULE Spec2Model ----
(***************************************************************************)
(* State-machine model of the dispatcher worker thread                     *)
(* (arangod/Dispatcher/DispatcherThread.cpp): DispatcherThread::run, the   *)
(* scheduling loop, and DispatcherThread::handleJob, the failure-contained *)
(* execution of one job, run by NThreads threads against one shared        *)
(* DispatcherQueue.                                                        *)
(*                                                                         *)
(* Time is counted in ticks of 200 ms, so that grace = 0.2 s is 1 tick.    *)
(* Every read or write of a shared variable is a step of its own.          *)
(***************************************************************************)
EXTENDS Integers, Sequences, FiniteSets, TLC

(* ------------------------------ bounds -------------------------------- *)

\* number of dispatcher threads started on the queue
NThreads == 2

\* number of jobs the producer enqueues
MaxJobs == 2

\* number of jobs the producer enqueues in the behaviours of FairSpec
MaxFairJobs == 1

\* the wall clock (TRI_microtime) when the threads start, in ticks; it is
\* seconds since the epoch in the program, hence far above grace
StartTime == 2

\* the wall clock stops advancing here
MaxClock == 4

\* the largest address of a thread object where the delays are computed
MaxIdent == 159

(* --------------------------- program constants ------------------------ *)

\* double grace = 0.2;
grace == 1

\* the build defines TRI_HAVE_POSIX_THREADS (pthread cancellation exists)
TRI_HAVE_POSIX_THREADS == TRUE

Threads == 1..NThreads
Jobs == 1..MaxJobs
NoJob == 0
NoThread == 0

(* ------------------------- thrown objects ----------------------------- *)

\* nothing was thrown / nothing was passed
NoThrow == [type |-> "none", code |-> "none", what |-> <<>>]

\* arangodb::basics::Exception(code, message, file, line)
Exception(code, what) == [type |-> "Exception", code |-> code, what |-> what]

\* what a job's work(), handleError() or cleanup() can throw
DomainError == Exception("TRI_ERROR_FORBIDDEN", <<"forbidden">>)
BadAlloc == [type |-> "bad_alloc", code |-> "none", what |-> <<"std::bad_alloc">>]
RuntimeFault == [type |-> "std_exception", code |-> "none", what |-> <<"runtime error">>]
UnknownFault == [type |-> "unknown", code |-> "none", what |-> <<>>]
Thrown == {DomainError, BadAlloc, RuntimeFault, UnknownFault}
Outcomes == {NoThrow} \cup Thrown

\* C++ handler matching: catch (T const&) takes an object whose type is T
\* or derives from T; catch (...) takes everything. std::bad_alloc and
\* arangodb::basics::Exception both derive from std::exception
Matches(x, handler) ==
  \/ handler = "..."
  \/ x.type = handler
  \/ handler = "std_exception" /\ x.type \in {"Exception", "bad_alloc"}

\* the first handler of the try block, in source order, that takes x
\* ("uncaught" when none does)
CaughtBy(x, handlers) ==
  IF \E i \in 1..Len(handlers) : Matches(x, handlers[i])
  THEN handlers[CHOOSE i \in 1..Len(handlers) :
                  /\ Matches(x, handlers[i])
                  /\ \A k \in 1..(i - 1) : ~Matches(x, handlers[k])]
  ELSE "uncaught"

(* ------------------------ thread identities --------------------------- *)

\* the addresses a thread object can be at
Idents == 0..MaxIdent

\* the addresses of the threads where the delays are not looked at: objects
\* of 16 bytes' alignment, one after the other
Addresses == [t \in Threads |-> 16 * t]

\* no wait() or usleep() was called
NoDelay == [call |-> "none", usec |-> 0]

\* n >> k on an unsigned n
RECURSIVE ShiftRight(_, _)
ShiftRight(n, k) == IF k = 0 THEN n ELSE ShiftRight(n \div 2, k - 1)

\* mutant of ParkTimeout: the identity is not shifted
ParkTimeout_NoShift(n) == (1 + (n % 9)) * 100 * 1000

\* uintptr_t n = (uintptr_t) this;  (1 + ((n >> 3) % 9)) * 100 * 1000, the
\* argument of _waitLock.wait, in microseconds
ParkTimeout(n) == (1 + (ShiftRight(n, 3) % 9)) * 100 * 1000

\* uintptr_t n = (uintptr_t) this;  1 + ((n >> 3) % 19), the argument of
\* usleep, in microseconds
MicroSleepTime(n) == 1 + (ShiftRight(n, 3) % 19)

(* ------------------------------ state --------------------------------- *)

VARIABLES
  stopping,       \* _queue->_stopping
  readyJobs,      \* _queue->_readyJobs, the queue of ready jobs
  numberJobs,     \* _queue->_numberJobs
  nrWaiting,      \* _queue->_nrWaiting
  waitLock,       \* holder of the mutex of _queue->_waitLock, or NoThread
  clock,          \* the wall clock TRI_microtime() reads
  pc,             \* where each thread is in run() / handleJob()
  now,            \* run(): local now
  worked,         \* run(): local worked
  job,            \* the job the thread popped last
  workRes,        \* handleJob(): what work() threw
  heArg,          \* handleJob(): the error passed to handleError
  heRes,          \* handleJob(): how handleError ended
  clRes,          \* handleJob(): how cleanup ended
  hooks,          \* per job: the hooks called on it, in order
  handed,         \* per job: the number of calls of handleJob on it
  removed,        \* per thread: calls of removeStartedThread(thread)
  pcP,            \* the producer: about to push or about to signal
  nextJob,        \* the producer: the next job to enqueue
  lastJob,        \* the producer: the last job it will enqueue
  atStop,         \* per thread: where it was when stopping was set
  nrRunning,      \* _queue->_nrRunning
  brokeOut,       \* per thread: tooManyThreads() answered true to it (line 109)
  nrBlocked,      \* _queue->_nrBlocked
  blocking,       \* per thread: it has called block() and not yet unblock()
  pcS,            \* addStatus: the next statement of the call in progress
  status,         \* addStatus: the fields added to the builder b so far
  ident,          \* per thread: (uintptr_t) this, the address of the thread
  delay           \* per thread: the argument of its wait() or usleep()

vars == <<stopping, readyJobs, numberJobs, nrWaiting, waitLock, clock, pc, now,
          worked, job, workRes, heArg, heRes, clRes, hooks, handed, removed,
          pcP, nextJob, lastJob, atStop, nrRunning, brokeOut,
          nrBlocked, blocking, pcS, status, ident, delay>>

queueVars == <<stopping, readyJobs, numberJobs, nrWaiting, waitLock>>
localVars == <<now, worked, job>>
passVars == <<workRes, heArg, heRes, clRes>>
jobVars == <<hooks, handed>>
envVars == <<clock, pcP, nextJob, lastJob, atStop>>
poolVars == <<nrRunning, brokeOut>>
blockVars == <<nrBlocked, blocking>>
statusVars == <<pcS, status>>
identVars == <<ident, delay>>
auxVars == <<blockVars, statusVars, identVars>>

\* the positions of a thread inside handleJob(job)
InHandleJob == {"work", "catch_all", "handleError", "cleanup", "cleanup_catch"}

\* a thread that has popped a job and not yet returned from handleJob
InFlight(t) == pc[t] \in InHandleJob \cup {"take"}

InitAt(n, start) ==
  /\ stopping = FALSE
  /\ readyJobs = <<>>
  /\ numberJobs = 0
  /\ nrWaiting = 0
  /\ waitLock = NoThread
  /\ clock = start
  /\ pc = [t \in Threads |-> "head"]
  /\ now = [t \in Threads |-> 0]
  /\ worked = [t \in Threads |-> 0]
  /\ job = [t \in Threads |-> NoJob]
  /\ workRes = [t \in Threads |-> NoThrow]
  /\ heArg = [t \in Threads |-> NoThrow]
  /\ heRes = [t \in Threads |-> "none"]
  /\ clRes = [t \in Threads |-> "none"]
  /\ hooks = [j \in Jobs |-> <<>>]
  /\ handed = [j \in Jobs |-> 0]
  /\ removed = [t \in Threads |-> 0]
  /\ pcP = "push"
  /\ nextJob = 1
  /\ lastJob = n
  /\ atStop = [t \in Threads |-> "unset"]
  /\ nrRunning = NThreads
  /\ brokeOut = [t \in Threads |-> FALSE]
  /\ nrBlocked = 0
  /\ blocking = [t \in Threads |-> FALSE]
  /\ pcS = "idle"
  /\ status = <<>>
  /\ delay = [t \in Threads |-> NoDelay]

InitWith(n) == InitAt(n, StartTime) /\ ident = Addresses

Init == InitWith(MaxJobs)

InitFair == InitWith(MaxFairJobs)

\* the threads start one tick before the wall clock stops advancing
InitStatus == InitAt(MaxFairJobs, MaxClock - 1) /\ ident = Addresses

\* the first two threads are at any addresses
InitIdent ==
  /\ InitAt(MaxFairJobs, StartTime)
  /\ ident \in {[t \in Threads |-> IF t = 1 THEN a ELSE IF t = 2 THEN b ELSE Addresses[t]] :
                  a \in Idents, b \in Idents}

(* ------------------------ DispatcherThread::run ----------------------- *)

\* mutant of LoopHead: the loop condition does not read _stopping
LoopHead_IgnoresStopping(t) ==
  /\ pc[t] = "head"
  /\ pc' = [pc EXCEPT ![t] = "pop"]
  /\ now' = [now EXCEPT ![t] = clock]
  /\ UNCHANGED <<queueVars, worked, job, passVars, jobVars, removed, envVars, poolVars, auxVars>>

\* while (!_queue->_stopping.load(...)) { double now = TRI_microtime();
LoopHead(t) ==
  /\ pc[t] = "head"
  /\ IF stopping
     THEN /\ pc' = [pc EXCEPT ![t] = "exit"]
          /\ now' = now
     ELSE /\ pc' = [pc EXCEPT ![t] = "pop"]
          /\ now' = [now EXCEPT ![t] = clock]
  /\ UNCHANGED <<queueVars, worked, job, passVars, jobVars, removed, envVars, poolVars, auxVars>>

\* mutant of IdleDecision: the park test is worked + grace <= now
IdleDecision_ParksAtGrace(w, n) ==
  IF w + grace <= n THEN "park"
  ELSE IF w < n THEN "usleep"
  ELSE "head"

\* if (worked + grace < now) {park} else if (worked < now) {usleep}
IdleDecision(w, n) ==
  IF w + grace < n THEN "park"
  ELSE IF w < n THEN "usleep"
  ELSE "head"

\* mutant of Pop: the pop reads the head of the queue and leaves it there
Pop_LeavesJobQueued(t) ==
  /\ pc[t] = "pop"
  /\ IF readyJobs # <<>>
     THEN /\ job' = [job EXCEPT ![t] = Head(readyJobs)]
          /\ pc' = [pc EXCEPT ![t] = "take"]
          /\ now' = now
     ELSE /\ job' = [job EXCEPT ![t] = NoJob]
          /\ pc' = [pc EXCEPT ![t] = IdleDecision(worked[t], now[t])]
          /\ now' = [now EXCEPT ![t] = 0]
  /\ workRes' = [workRes EXCEPT ![t] = NoThrow]
  /\ heArg' = [heArg EXCEPT ![t] = NoThrow]
  /\ heRes' = [heRes EXCEPT ![t] = "none"]
  /\ clRes' = [clRes EXCEPT ![t] = "none"]
  /\ UNCHANGED <<queueVars, worked, jobVars, removed, envVars, poolVars, auxVars>>

\* while (_queue->_readyJobs.pop(job)): a job is taken off the queue, or the
\* queue is empty and the drain ends with the idle decision, the last read
\* of now in the iteration (0 stands for the local that is no longer read)
Pop(t) ==
  /\ pc[t] = "pop"
  /\ IF readyJobs # <<>>
     THEN /\ job' = [job EXCEPT ![t] = Head(readyJobs)]
          /\ readyJobs' = Tail(readyJobs)
          /\ pc' = [pc EXCEPT ![t] = "take"]
          /\ now' = now
     ELSE /\ job' = [job EXCEPT ![t] = NoJob]
          /\ readyJobs' = readyJobs
          /\ pc' = [pc EXCEPT ![t] = IdleDecision(worked[t], now[t])]
          /\ now' = [now EXCEPT ![t] = 0]
  /\ workRes' = [workRes EXCEPT ![t] = NoThrow]
  /\ heArg' = [heArg EXCEPT ![t] = NoThrow]
  /\ heRes' = [heRes EXCEPT ![t] = "none"]
  /\ clRes' = [clRes EXCEPT ![t] = "none"]
  /\ UNCHANGED <<stopping, numberJobs, nrWaiting, waitLock, worked,
                 jobVars, removed, envVars, poolVars, auxVars>>

\* mutant of TakeJob: the queued-job counter is not decremented
TakeJob_NoDecrement(t) ==
  /\ pc[t] = "take"
  /\ worked' = [worked EXCEPT ![t] = now[t]]
  /\ handed' = [handed EXCEPT ![job[t]] = @ + 1]
  /\ hooks' = [hooks EXCEPT ![job[t]] = Append(@, "mark")]
  /\ pc' = [pc EXCEPT ![t] = "work"]
  /\ UNCHANGED <<queueVars, now, job, passVars, removed, envVars, poolVars,
                 auxVars>>

\* --(_queue->_numberJobs); worked = now; handleJob(job); and the first
\* statement of handleJob, job->requestStatisticsAgentSetQueueEnd();
TakeJob(t) ==
  /\ pc[t] = "take"
  /\ numberJobs' = numberJobs - 1
  /\ worked' = [worked EXCEPT ![t] = now[t]]
  /\ handed' = [handed EXCEPT ![job[t]] = @ + 1]
  /\ hooks' = [hooks EXCEPT ![job[t]] = Append(@, "mark")]
  /\ pc' = [pc EXCEPT ![t] = "work"]
  /\ UNCHANGED <<stopping, readyJobs, nrWaiting, waitLock, now, job, passVars,
                 removed, envVars, poolVars, auxVars>>

\* ++_queue->_nrWaiting;
ParkAnnounce(t) ==
  /\ pc[t] = "park"
  /\ nrWaiting' = nrWaiting + 1
  /\ pc' = [pc EXCEPT ![t] = "lock"]
  /\ UNCHANGED <<stopping, readyJobs, numberJobs, waitLock, localVars, passVars,
                 jobVars, removed, envVars, poolVars, auxVars>>

\* CONDITION_LOCKER(guard, _queue->_waitLock);
LockWaitLock(t) ==
  /\ pc[t] = "lock"
  /\ waitLock = NoThread
  /\ waitLock' = t
  /\ pc' = [pc EXCEPT ![t] = "recheck"]
  /\ UNCHANGED <<stopping, readyJobs, numberJobs, nrWaiting, localVars, passVars,
                 jobVars, removed, envVars, poolVars, auxVars>>

\* if (!_queue->_readyJobs.empty()) {abort the park} else {wait}
Recheck(t) ==
  /\ pc[t] = "recheck"
  /\ pc' = [pc EXCEPT ![t] = IF readyJobs # <<>> THEN "abort" ELSE "wait"]
  /\ UNCHANGED <<queueVars, localVars, passVars, jobVars, removed, envVars, poolVars, auxVars>>

\* _queue->_waitLock.wait(...): the wait begins and releases the mutex
EnterWait(t) ==
  /\ pc[t] = "wait"
  /\ waitLock' = NoThread
  /\ pc' = [pc EXCEPT ![t] = "waiting"]
  /\ UNCHANGED <<stopping, readyJobs, numberJobs, nrWaiting, localVars, passVars,
                 jobVars, removed, envVars, poolVars, auxVars>>

\* mutant of AbortPark: the park is left without the decrement
AbortPark_NoDecrement(t) ==
  /\ pc[t] = "abort"
  /\ waitLock' = NoThread
  /\ pc' = [pc EXCEPT ![t] = "head"]
  /\ UNCHANGED <<stopping, readyJobs, numberJobs, nrWaiting, localVars, passVars,
                 jobVars, removed, envVars, poolVars, auxVars>>

\* --_queue->_nrWaiting; continue;   (the guard releases the mutex)
AbortPark(t) ==
  /\ pc[t] = "abort"
  /\ nrWaiting' = nrWaiting - 1
  /\ waitLock' = NoThread
  /\ pc' = [pc EXCEPT ![t] = "head"]
  /\ UNCHANGED <<stopping, readyJobs, numberJobs, localVars, passVars, jobVars,
                 removed, envVars, poolVars, auxVars>>

\* mutant of WaitTimeout: the wait has no timeout, only a signal ends it
WaitTimeout_Never(t) ==
  /\ pc[t] = "waiting"
  /\ FALSE
  /\ UNCHANGED vars

\* _queue->_waitLock.wait((1 + ((n >> 3) % 9)) * 100 * 1000): the timeout ends
\* the wait
WaitTimeout(t) ==
  /\ pc[t] = "waiting"
  /\ pc' = [pc EXCEPT ![t] = "woken"]
  /\ UNCHANGED <<queueVars, localVars, passVars, jobVars, removed, envVars, poolVars, auxVars>>

\* wait() returns with the mutex held again
Reacquire(t) ==
  /\ pc[t] = "woken"
  /\ waitLock = NoThread
  /\ waitLock' = t
  /\ pc' = [pc EXCEPT ![t] = "unpark"]
  /\ UNCHANGED <<stopping, readyJobs, numberJobs, nrWaiting, localVars, passVars,
                 jobVars, removed, envVars, poolVars, auxVars>>

\* --_queue->_nrWaiting;
Unpark(t) ==
  /\ pc[t] = "unpark"
  /\ nrWaiting' = nrWaiting - 1
  /\ pc' = [pc EXCEPT ![t] = "shrink"]
  /\ UNCHANGED <<stopping, readyJobs, numberJobs, waitLock, localVars, passVars,
                 jobVars, removed, envVars, poolVars, auxVars>>

\* what _queue->tooManyThreads() can answer
tooManyThreads == BOOLEAN

\* mutant of ShrinkCheck: the break leaves the loop with the mutex held
ShrinkCheck_BreakKeepsLock(t) ==
  /\ pc[t] = "shrink"
  /\ \E answer \in tooManyThreads :
       /\ pc' = [pc EXCEPT ![t] = IF answer THEN "exit" ELSE "head"]
       /\ brokeOut' = [brokeOut EXCEPT ![t] = answer]
       /\ waitLock' = IF answer THEN waitLock ELSE NoThread
  /\ UNCHANGED <<stopping, readyJobs, numberJobs, nrWaiting, localVars, passVars,
                 jobVars, removed, envVars, nrRunning, auxVars>>

\* mutant of ShrinkCheck: the answer is read and the loop is not left
ShrinkCheck_NoBreak(t) ==
  /\ pc[t] = "shrink"
  /\ \E answer \in tooManyThreads :
       /\ pc' = [pc EXCEPT ![t] = "head"]
       /\ brokeOut' = [brokeOut EXCEPT ![t] = answer]
  /\ waitLock' = NoThread
  /\ UNCHANGED <<stopping, readyJobs, numberJobs, nrWaiting, localVars, passVars,
                 jobVars, removed, envVars, nrRunning, auxVars>>

\* if (_queue->tooManyThreads()) { break; }   (the guard releases the mutex)
ShrinkCheck(t) ==
  /\ pc[t] = "shrink"
  /\ \E answer \in tooManyThreads :
       /\ pc' = [pc EXCEPT ![t] = IF answer THEN "exit" ELSE "head"]
       /\ brokeOut' = [brokeOut EXCEPT ![t] = answer]
  /\ waitLock' = NoThread
  /\ UNCHANGED <<stopping, readyJobs, numberJobs, nrWaiting, localVars, passVars,
                 jobVars, removed, envVars, nrRunning, auxVars>>

\* mutant of MicroSleep: tooManyThreads() is consulted after the micro-sleep
MicroSleep_ThenShrinkCheck(t) ==
  /\ pc[t] = "usleep"
  /\ pc' = [pc EXCEPT ![t] = "shrink"]
  /\ UNCHANGED <<queueVars, localVars, passVars, jobVars, removed, envVars,
                 poolVars, auxVars>>

\* usleep(1 + ((n >> 3) % 19));
MicroSleep(t) ==
  /\ pc[t] = "usleep"
  /\ pc' = [pc EXCEPT ![t] = "head"]
  /\ UNCHANGED <<queueVars, localVars, passVars, jobVars, removed, envVars, poolVars, auxVars>>

\* DispatcherQueue::removeStartedThread deregisters the thread: the pool
\* counts one running thread less
removeStartedThread(t) ==
  /\ removed' = [removed EXCEPT ![t] = @ + 1]
  /\ nrRunning' = nrRunning - 1

\* _queue->removeStartedThread(this);   the last statement of run()
RemoveStartedThread(t) ==
  /\ pc[t] = "exit"
  /\ removeStartedThread(t)
  /\ pc' = [pc EXCEPT ![t] = "done"]
  /\ UNCHANGED <<queueVars, localVars, passVars, jobVars, envVars, brokeOut,
                 auxVars>>

(* ---------------- DispatcherThread::block and unblock ----------------- *)

\* DispatcherQueue::blockThread: one more thread is in a blocking operation
blockThread == nrBlocked' = nrBlocked + 1

\* DispatcherQueue::unblockThread: the blocking operation is over
unblockThread == nrBlocked' = nrBlocked - 1

(* --------------------- DispatcherThread::handleJob --------------------- *)

\* mutant of WorkHandlers: the std::exception handler comes first
WorkHandlers_StdExceptionFirst == <<"std_exception", "Exception", "bad_alloc", "...">>

\* the handlers of the try block around work(), in source order
WorkHandlers == <<"Exception", "bad_alloc", "std_exception", "...">>

\* the handlers of the try block around handleError in the first handler
\* (the other three have catch (...) alone, which takes the same objects)
ErrorHandlers == <<"Exception", "std_exception", "...">>

\* the handlers of the try block around cleanup
CleanupHandlers == <<"...">>

\* the error a handler passes to job->handleError: the caught Exception
\* itself, or the Exception ex2 / ex it constructs
ErrorFor(clause, x) ==
  CASE clause = "Exception" -> x
    [] clause = "bad_alloc" ->
         Exception("TRI_ERROR_OUT_OF_MEMORY", <<"job failed with bad_alloc: ">> \o x.what)
    [] clause = "std_exception" ->
         Exception("TRI_ERROR_INTERNAL", <<"job failed with error: ">> \o x.what)
    [] OTHER ->
         Exception("TRI_ERROR_INTERNAL", <<"job failed with unknown error">>)

\* mutant of AfterWork: handleError is called after a successful work() too
AfterWork_HandleErrorAlways(x) ==
  IF x # NoThrow /\ CaughtBy(x, WorkHandlers) = "..." THEN "catch_all"
  ELSE "handleError"

\* where handleJob goes when work() ends with x: to cleanup, into one of the
\* three handlers that call handleError at once, or into catch (...)
AfterWork(x) ==
  IF x = NoThrow THEN "cleanup"
  ELSE IF CaughtBy(x, WorkHandlers) = "..." THEN "catch_all"
  ELSE "handleError"

\* void DispatcherThread::block() { _queue->blockThread(); }   called by the
\* job from inside work(), around an operation that blocks
Block(t) ==
  /\ pc[t] = "work"
  /\ ~blocking[t]
  /\ blockThread
  /\ blocking' = [blocking EXCEPT ![t] = TRUE]
  /\ UNCHANGED <<queueVars, pc, localVars, passVars, jobVars, removed, envVars,
                 poolVars, statusVars, identVars>>

\* void DispatcherThread::unblock() { _queue->unblockThread(); }
Unblock(t) ==
  /\ pc[t] = "work"
  /\ blocking[t]
  /\ unblockThread
  /\ blocking' = [blocking EXCEPT ![t] = FALSE]
  /\ UNCHANGED <<queueVars, pc, localVars, passVars, jobVars, removed, envVars,
                 poolVars, statusVars, identVars>>

\* job->work(); and the selection of the handler; a job that announced a
\* blocking operation ends it before work() is over
Work(t) ==
  /\ pc[t] = "work"
  /\ ~blocking[t]
  /\ \E x \in Outcomes :
       /\ workRes' = [workRes EXCEPT ![t] = x]
       /\ pc' = [pc EXCEPT ![t] = AfterWork(x)]
       /\ heArg' = [heArg EXCEPT ![t] =
                      IF AfterWork(x) = "handleError"
                      THEN ErrorFor(CaughtBy(x, WorkHandlers), x)
                      ELSE NoThrow]
  /\ hooks' = [hooks EXCEPT ![job[t]] = Append(@, "work")]
  /\ UNCHANGED <<queueVars, localVars, heRes, clRes, handed, removed, envVars, poolVars, auxVars>>

\* mutant of CatchAll: the handler never rethrows
CatchAll_NeverRethrows(t) ==
  /\ pc[t] = "catch_all"
  /\ pc' = [pc EXCEPT ![t] = "handleError"]
  /\ heArg' = [heArg EXCEPT ![t] = ErrorFor("...", workRes[t])]
  /\ UNCHANGED <<queueVars, localVars, workRes, heRes, clRes, jobVars, removed,
                 envVars, poolVars, auxVars>>

\* mutant of CatchAll: the handler logs the fault and does not call handleError
CatchAll_SkipsHandleError(t) ==
  /\ pc[t] = "catch_all"
  /\ pc' = [pc EXCEPT ![t] =
              IF TRI_HAVE_POSIX_THREADS /\ stopping THEN "cancelled" ELSE "cleanup"]
  /\ UNCHANGED <<queueVars, localVars, passVars, jobVars, removed, envVars, poolVars, auxVars>>

\* catch (...) { if (_queue->_stopping.load(...)) { throw; }  ...
\* the rethrown object leaves handleJob and run(), which has no handler
CatchAll(t) ==
  /\ pc[t] = "catch_all"
  /\ IF TRI_HAVE_POSIX_THREADS /\ stopping
     THEN /\ pc' = [pc EXCEPT ![t] = "cancelled"]
          /\ heArg' = heArg
     ELSE /\ pc' = [pc EXCEPT ![t] = "handleError"]
          /\ heArg' = [heArg EXCEPT ![t] = ErrorFor("...", workRes[t])]
  /\ UNCHANGED <<queueVars, localVars, workRes, heRes, clRes, jobVars, removed,
                 envVars, poolVars, auxVars>>

\* mutant of AfterHandleError: an object thrown by handleError is not caught
AfterHandleError_Escapes(x) ==
  IF x = NoThrow THEN "cleanup" ELSE "cancelled"

\* where handleJob goes when handleError ends with x
AfterHandleError(x) ==
  IF x = NoThrow \/ CaughtBy(x, ErrorHandlers) # "uncaught"
  THEN "cleanup"
  ELSE "cancelled"

\* try { job->handleError(ex); } catch ... { LOG(WARNING) ... }
HandleError(t) ==
  /\ pc[t] = "handleError"
  /\ \E x \in Outcomes :
       /\ heRes' = [heRes EXCEPT ![t] = IF x = NoThrow THEN "ok" ELSE "threw"]
       /\ pc' = [pc EXCEPT ![t] = AfterHandleError(x)]
  /\ hooks' = [hooks EXCEPT ![job[t]] = Append(@, "handleError")]
  /\ UNCHANGED <<queueVars, localVars, workRes, heArg, clRes, handed, removed,
                 envVars, poolVars, auxVars>>

\* try { job->cleanup(_queue); } catch (...) {
Cleanup(t) ==
  /\ pc[t] = "cleanup"
  /\ \E x \in Outcomes :
       /\ clRes' = [clRes EXCEPT ![t] = IF x = NoThrow THEN "ok" ELSE "threw"]
       /\ pc' = [pc EXCEPT ![t] =
                   IF CaughtBy(x, CleanupHandlers) = "..." /\ x # NoThrow
                   THEN "cleanup_catch" ELSE "pop"]
  /\ hooks' = [hooks EXCEPT ![job[t]] = Append(@, "cleanup")]
  /\ UNCHANGED <<queueVars, localVars, workRes, heArg, heRes, handed, removed,
                 envVars, poolVars, auxVars>>

\* mutant of CleanupCatch: the handler rethrows whatever the flag
CleanupCatch_AlwaysRethrows(t) ==
  /\ pc[t] = "cleanup_catch"
  /\ pc' = [pc EXCEPT ![t] = "cancelled"]
  /\ UNCHANGED <<queueVars, localVars, passVars, jobVars, removed, envVars, poolVars, auxVars>>

\* catch (...) { if (_queue->_stopping.load(...)) { throw; } LOG(WARNING) ... }
CleanupCatch(t) ==
  /\ pc[t] = "cleanup_catch"
  /\ pc' = [pc EXCEPT ![t] =
              IF TRI_HAVE_POSIX_THREADS /\ stopping THEN "cancelled" ELSE "pop"]
  /\ UNCHANGED <<queueVars, localVars, passVars, jobVars, removed, envVars, poolVars, auxVars>>

(* -------------------- DispatcherThread::addStatus --------------------- *)

\* the largest value of an int
IntMax == 2147483647

\* (int) x for a counter x below 2^32: a value above IntMax is read as the
\* negative number with the same low 32 bits
ToInt(x) == IF x > IntMax THEN x - IntMax - IntMax - 2 ELSE x

\* _queue->_id of the queue the threads were constructed on
QueueId == "STANDARD_QUEUE"

\* b->add(name, VPackValue(value));
Add(b, name, value) == Append(b, <<name, value>>)

\* the statements of addStatus, in source order: the field each adds and
\* the value it loads for it
StatusFields == <<"queue", "stopping", "waitingJobs", "numberRunning",
                  "numberWaiting", "numberBlocked">>

\* mutant of Load: numberWaiting is loaded from _nrRunning
Load_WaitingFromRunning(field) ==
  CASE field = "queue" -> QueueId
    [] field = "stopping" -> stopping
    [] field = "waitingJobs" -> numberJobs
    [] field = "numberRunning" -> ToInt(nrRunning)
    [] field = "numberWaiting" -> ToInt(nrRunning)
    [] field = "numberBlocked" -> ToInt(nrBlocked)

\* _queue->_stopping.load(), _queue->_numberJobs.load(),
\* (int)_queue->_nrRunning.load(), ...
Load(field) ==
  CASE field = "queue" -> QueueId
    [] field = "stopping" -> stopping
    [] field = "waitingJobs" -> numberJobs
    [] field = "numberRunning" -> ToInt(nrRunning)
    [] field = "numberWaiting" -> ToInt(nrWaiting)
    [] field = "numberBlocked" -> ToInt(nrBlocked)

\* some thread calls addStatus(b) on a dispatcher thread, with a fresh b
StatusCall ==
  /\ pcS = "idle"
  /\ pcS' = StatusFields[1]
  /\ status' = <<>>
  /\ UNCHANGED <<queueVars, pc, localVars, passVars, jobVars, removed, envVars,
                 poolVars, blockVars, identVars>>

\* one statement b->add(field, VPackValue(...)) of addStatus: one atomic load
StatusAdd ==
  /\ \E i \in 1..Len(StatusFields) :
       /\ pcS = StatusFields[i]
       /\ status' = Add(status, StatusFields[i], Load(StatusFields[i]))
       /\ pcS' = IF i < Len(StatusFields) THEN StatusFields[i + 1] ELSE "return"
  /\ UNCHANGED <<queueVars, pc, localVars, passVars, jobVars, removed, envVars,
                 poolVars, blockVars, identVars>>

\* addStatus returns; the caller consumes the builder
StatusReturn ==
  /\ pcS = "return"
  /\ pcS' = "idle"
  /\ status' = <<>>
  /\ UNCHANGED <<queueVars, pc, localVars, passVars, jobVars, removed, envVars,
                 poolVars, blockVars, identVars>>

AddStatus == StatusCall \/ StatusAdd \/ StatusReturn

(* ------------------------- the environment ---------------------------- *)

\* a producer enqueues a job: the push on _readyJobs and ++_numberJobs
AddJob ==
  /\ pcP = "push"
  /\ nextJob <= lastJob
  /\ readyJobs' = Append(readyJobs, nextJob)
  /\ numberJobs' = numberJobs + 1
  /\ pcP' = "signal"
  /\ UNCHANGED <<stopping, nrWaiting, waitLock, clock, pc, localVars, passVars,
                 jobVars, removed, nextJob, lastJob, atStop, poolVars, auxVars>>

\* the producer signals _waitLock after the push: one waiting thread, if
\* there is one, ends its wait
SignalWaitLock ==
  /\ pcP = "signal"
  /\ \/ \E t \in Threads :
          /\ pc[t] = "waiting"
          /\ pc' = [pc EXCEPT ![t] = "woken"]
     \/ /\ \A t \in Threads : pc[t] # "waiting"
        /\ pc' = pc
  /\ pcP' = "push"
  /\ nextJob' = nextJob + 1
  /\ UNCHANGED <<queueVars, clock, localVars, passVars, jobVars, removed,
                 lastJob, atStop, poolVars, auxVars>>

\* the queue is shut down: _stopping goes from false to true, once
BeginShutdown ==
  /\ ~stopping
  /\ stopping' = TRUE
  /\ atStop' = [t \in Threads |->
                  IF InFlight(t) THEN "inFlight"
                  ELSE IF pc[t] = "waiting" THEN "waiting"
                  ELSE "elsewhere"]
  /\ UNCHANGED <<readyJobs, numberJobs, nrWaiting, waitLock, clock, pc, localVars,
                 passVars, jobVars, removed, pcP, nextJob, lastJob, poolVars,
                 auxVars>>

\* the wall clock advances
Tick ==
  /\ clock < MaxClock
  /\ clock' = clock + 1
  /\ UNCHANGED <<queueVars, pc, localVars, passVars, jobVars, removed, pcP,
                 nextJob, lastJob, atStop, poolVars, auxVars>>

(* --------------------------- specification ---------------------------- *)

ThreadStep(t) ==
  \/ LoopHead(t)
  \/ Pop(t)
  \/ TakeJob(t)
  \/ ParkAnnounce(t)
  \/ LockWaitLock(t)
  \/ Recheck(t)
  \/ EnterWait(t)
  \/ AbortPark(t)
  \/ WaitTimeout(t)
  \/ Reacquire(t)
  \/ Unpark(t)
  \/ ShrinkCheck(t)
  \/ MicroSleep(t)
  \/ RemoveStartedThread(t)
  \/ Block(t)
  \/ Unblock(t)
  \/ Work(t)
  \/ CatchAll(t)
  \/ HandleError(t)
  \/ Cleanup(t)
  \/ CleanupCatch(t)

Next ==
  \/ \E t \in Threads : ThreadStep(t)
  \/ AddJob
  \/ SignalWaitLock
  \/ BeginShutdown
  \/ Tick

Spec == Init /\ [][Next]_vars

\* every thread that can take a step eventually takes one (the operating
\* system schedules every runnable thread), the producer gets to signal, and
\* work() returns: a job does not announce blocking operations for ever
FairSpec ==
  /\ InitFair
  /\ [][Next]_vars
  /\ \A t \in Threads : WF_vars(ThreadStep(t)) /\ SF_vars(Work(t))
  /\ WF_vars(SignalWaitLock)

\* scheduling of every runnable thread with a mutex that does not starve: a
\* thread blocked on the mutex of waitLock gets it if the mutex is free again
\* and again; nothing is assumed about the length of work()
LockFairSpec ==
  /\ InitFair
  /\ [][Next]_vars
  /\ \A t \in Threads : WF_vars(ThreadStep(t))
  /\ WF_vars(SignalWaitLock)
  /\ \A t \in Threads : SF_vars(LockWaitLock(t)) /\ SF_vars(Reacquire(t))

\* thread t computes the argument of its wait (lines 101-102)
ParkDelay(t) ==
  /\ delay[t] = NoDelay
  /\ delay' = [delay EXCEPT ![t] = [call |-> "wait", usec |-> ParkTimeout(ident[t])]]
  /\ UNCHANGED <<queueVars, pc, localVars, passVars, jobVars, removed, envVars,
                 poolVars, blockVars, statusVars, ident>>

\* thread t computes the argument of its usleep (lines 113-114)
SleepDelay(t) ==
  /\ delay[t] = NoDelay
  /\ delay' = [delay EXCEPT ![t] = [call |-> "usleep", usec |-> MicroSleepTime(ident[t])]]
  /\ UNCHANGED <<queueVars, pc, localVars, passVars, jobVars, removed, envVars,
                 poolVars, blockVars, statusVars, ident>>

NextIdent == \E t \in Threads : ParkDelay(t) \/ SleepDelay(t)

\* the delays of threads at any addresses
IdentSpec == InitIdent /\ [][NextIdent]_vars

\* the threads and their environment with a caller of addStatus beside them
NextStatus ==
  \/ Next
  \/ AddStatus

StatusSpec == InitStatus /\ [][NextStatus]_vars

(* ------------------------------ claims -------------------------------- *)

\* the number of times hook h was called on a job whose calls are seq
Count(seq, h) == Cardinality({i \in 1..Len(seq) : seq[i] = h})

\* handleJob(j) was called and is over: it returned or it was left by a throw
PassOver(j) ==
  /\ handed[j] >= 1
  /\ \A t \in Threads : ~(job[t] = j /\ pc[t] \in InHandleJob)

\* thread t has returned from handleJob(job[t]) and is back at the loop
\* condition of the drain
Returned(t) == pc[t] = "pop" /\ job[t] # NoJob

\* thread t left handleJob by the throw in catch (...) around work()
CancelledInWork(t) == pc[t] = "cancelled" /\ clRes[t] = "none"

\* every job was enqueued, the queue is empty and no job is in flight
Drained ==
  /\ nextJob > lastJob
  /\ readyJobs = <<>>
  /\ \A t \in Threads : ~InFlight(t)

\* C1: whatever the interleaving of the threads, no job is handed to
\* handleJob more than once, no job is held by two threads at once, work() is
\* never invoked twice on a job, it has been invoked exactly once on every
\* job whose handleJob pass is beyond work() or over, and once the queue is
\* drained every enqueued job has had work() invoked exactly once.
C1_WorkExactlyOnce ==
  \A j \in Jobs :
    /\ handed[j] <= 1
    /\ Cardinality({t \in Threads : InFlight(t) /\ job[t] = j}) <= 1
    /\ Count(hooks[j], "work") <= handed[j]
    /\ \A t \in Threads :
         job[t] = j /\ pc[t] \in InHandleJob \ {"work"} =>
           Count(hooks[j], "work") = 1
    /\ PassOver(j) => Count(hooks[j], "work") = 1
    /\ Drained /\ j <= lastJob => Count(hooks[j], "work") = 1

\* C1 witness: the queue is drained and two threads have each returned from
\* the handleJob pass of a different job
C1_Witness ==
  /\ Drained
  /\ \E t, u \in Threads :
       /\ t # u
       /\ Returned(t)
       /\ Returned(u)
       /\ job[t] # job[u]

\* C2 as stated: once handleJob(j) is over, cleanup was invoked exactly once
\* on j, whatever work() and handleError did and whatever the shutdown flag.
C2_Original ==
  \A j \in Jobs : PassOver(j) => Count(hooks[j], "cleanup") = 1

\* C2 amended: cleanup is invoked at most once on a job, and exactly once by
\* the end of its handleJob pass, except when work() threw an unrecognized
\* fault and catch (...) found the shutdown flag set: then the fault is
\* rethrown at once and cleanup is not invoked on that job.
C2_CleanupOnceUnlessCancelled ==
  \A j \in Jobs :
    /\ Count(hooks[j], "cleanup") <= 1
    /\ PassOver(j) =>
         Count(hooks[j], "cleanup") =
           IF \E t \in Threads :
                /\ CancelledInWork(t)
                /\ job[t] = j
                /\ workRes[t] = UnknownFault
                /\ heRes[t] = "none"
                /\ stopping
           THEN 0 ELSE 1

\* C2 witness: a pass that is over, with the shutdown flag set, in which
\* work() threw, handleError threw as well, and cleanup was invoked once
C2_Witness ==
  \E t \in Threads :
    /\ Returned(t)
    /\ stopping
    /\ workRes[t] # NoThrow
    /\ heRes[t] = "threw"
    /\ Count(hooks[job[t]], "cleanup") = 1

\* C4: while the shutdown flag is not set, no step of handleError, of
\* cleanup or of the handler around cleanup leaves handleJob by a throw: the
\* thread goes on to cleanup, and from there back to the loop condition of
\* the drain, where it pops the next job; a thread is unwound by a throw only
\* when the flag is set.
C4_FailuresContained ==
  /\ [](\A t \in Threads : pc[t] = "cancelled" => stopping)
  /\ [][\A t \in Threads :
          ~stopping =>
            /\ pc[t] = "handleError" => pc'[t] \in {"handleError", "cleanup"}
            /\ pc[t] = "cleanup" => pc'[t] \in {"cleanup", "cleanup_catch", "pop"}
            /\ pc[t] = "cleanup_catch" => pc'[t] \in {"cleanup_catch", "pop"}]_vars

\* C4 witness: with the flag not set, a thread is back at the loop condition
\* after a pass in which handleError threw and cleanup threw, and a job
\* enqueued after the failing one is there for it to pop
C4_Witness ==
  \E t \in Threads :
    /\ Returned(t)
    /\ ~stopping
    /\ heRes[t] = "threw"
    /\ clRes[t] = "threw"
    /\ readyJobs # <<>>
    /\ Head(readyJobs) > job[t]

\* C5 as stated: a thread that had a job in flight when the shutdown flag
\* was set processes at most that job: it pops no further job.
C5_NoNewJobAfterStop ==
  [][\A t \in Threads :
       atStop[t] = "inFlight" => ~(pc[t] = "pop" /\ pc'[t] = "take")]_vars

\* C7 as stated: every thread whose run() has ended, by the shutdown flag, by
\* a shrink or by a cancellation rethrown out of handleJob, has called
\* removeStartedThread(self) exactly once, and no thread calls it twice.
C7_RemovedExactlyOnce ==
  \A t \in Threads :
    /\ removed[t] <= 1
    /\ pc[t] \in {"done", "cancelled"} => removed[t] = 1

\* C8: when work() throws an unrecognized fault and the shutdown flag is not
\* set, handleJob does not rethrow: it calls handleError with an internal
\* error, then cleanup, and when it has returned the hooks called on the job
\* are mark, work, handleError, cleanup, in that order.
C8_UnknownFaultContained ==
  /\ [](\A t \in Threads :
          workRes[t] = UnknownFault /\ pc[t] \in {"handleError", "cleanup", "cleanup_catch", "pop"} =>
            /\ heArg[t].type = "Exception"
            /\ heArg[t].code = "TRI_ERROR_INTERNAL"
            /\ heArg[t].what = <<"job failed with unknown error">>
            /\ pc[t] # "handleError" => Count(hooks[job[t]], "handleError") = 1
            /\ pc[t] = "pop" => hooks[job[t]] = <<"mark", "work", "handleError", "cleanup">>)
  /\ [][\A t \in Threads :
          pc[t] = "catch_all" /\ ~stopping => pc'[t] \in {"catch_all", "handleError"}]_vars

\* C8 witness: with the flag not set, a thread has returned from a pass in
\* which work() threw an unrecognized fault
C8_Witness ==
  \E t \in Threads :
    /\ Returned(t)
    /\ ~stopping
    /\ workRes[t] = UnknownFault

\* C9: when work() throws an unrecognized fault and the shutdown flag is set,
\* handleJob rethrows it without calling handleError or cleanup, and the
\* thread is unwound out of handleJob and out of the loop for good; no other
\* object thrown by work() leaves handleJob from the handlers around work().
C9_CancellationRethrown ==
  /\ [](\A t \in Threads :
          CancelledInWork(t) =>
            /\ workRes[t] = UnknownFault
            /\ stopping
            /\ heArg[t] = NoThrow
            /\ heRes[t] = "none"
            /\ hooks[job[t]] = <<"mark", "work">>)
  /\ [][\A t \in Threads :
          /\ pc[t] = "catch_all" /\ stopping => pc'[t] \in {"catch_all", "cancelled"}
          /\ pc[t] = "cancelled" => pc'[t] = "cancelled"
          /\ pc[t] = "work" /\ pc'[t] # "work" /\ workRes'[t] # UnknownFault =>
               pc'[t] \in {"handleError", "cleanup"}]_vars

\* C9 witness: a thread was unwound by the rethrow in catch (...) around
\* work() while another job was still queued
C9_Witness ==
  \E t \in Threads :
    /\ CancelledInWork(t)
    /\ readyJobs # <<>>

\* C10: once work() has thrown a domain error, a bad_alloc or another
\* std::exception, handleError is called, whatever the shutdown flag, exactly
\* once, with the domain error itself, with an out-of-memory error carrying
\* the bad_alloc's message, or with an internal error carrying the
\* exception's message; a bad_alloc and a domain error are not taken by the
\* std::exception handler although they are std::exceptions.
C10_FailureRouting ==
  \A t \in Threads :
    workRes[t] \in {DomainError, BadAlloc, RuntimeFault} =>
      /\ pc[t] \in {"handleError", "cleanup", "cleanup_catch", "pop", "cancelled"}
      /\ pc[t] # "handleError" => Count(hooks[job[t]], "handleError") = 1
      /\ workRes[t] = DomainError => heArg[t] = workRes[t]
      /\ workRes[t] = BadAlloc =>
           /\ heArg[t].type = "Exception"
           /\ heArg[t].code = "TRI_ERROR_OUT_OF_MEMORY"
           /\ heArg[t].what = <<"job failed with bad_alloc: ", "std::bad_alloc">>
      /\ workRes[t] = RuntimeFault =>
           /\ heArg[t].type = "Exception"
           /\ heArg[t].code = "TRI_ERROR_INTERNAL"
           /\ heArg[t].what = <<"job failed with error: ", "runtime error">>

\* C10 witness: the shutdown flag was set before work() threw a bad_alloc
\* (the thread was in flight at that time), and handleError has been called
C10_Witness ==
  \E t \in Threads :
    /\ atStop[t] = "inFlight"
    /\ workRes[t] = BadAlloc
    /\ pc[t] = "cleanup"
    /\ heRes[t] = "ok"

\* a thread whose run() has not ended
Alive(t) == pc[t] \notin {"done", "cancelled"}

\* job j is in the queue of ready jobs
Queued(j) == \E i \in 1..Len(readyJobs) : readyJobs[i] = j

\* C3: as long as the shutdown flag is never set and some thread stays
\* alive, every job in the queue is eventually popped and has work() invoked,
\* wherever the threads were between the end of their drain and their wait
\* when the producer pushed it and signalled.
C3_NoLostWakeup ==
  ([]~stopping /\ [](\E t \in Threads : Alive(t))) =>
    \A j \in Jobs : Queued(j) ~> (Count(hooks[j], "work") = 1)

\* C3 witness: the flag is not set, a job is in the queue, the producer has
\* already signalled for it (it pushed and signalled between the re-check of
\* a thread and the beginning of its wait), and every thread that is alive
\* is waiting on waitLock
C3_Witness ==
  /\ ~stopping
  /\ readyJobs # <<>>
  /\ pcP = "push"
  /\ \E t \in Threads : pc[t] = "waiting"
  /\ \A t \in Threads : Alive(t) => pc[t] = "waiting"

\* the positions between the wait on waitLock and the end of run()
ParkToExit == {"waiting", "woken", "unpark", "shrink", "head", "exit", "done"}

\* C6: a thread that is waiting on waitLock when the shutdown flag is set
\* eventually ends its run(): from the wait it goes only through the wake,
\* the decrement of nrWaiting, the shrink check and the loop condition, never
\* through a pop, and it is terminated after one call of removeStartedThread.
C6_ParkedThreadStops ==
  /\ \A t \in Threads : (atStop[t] = "waiting") ~> (pc[t] = "done")
  /\ [](\A t \in Threads :
          atStop[t] = "waiting" =>
            /\ pc[t] \in ParkToExit
            /\ job[t] = NoJob
            /\ removed[t] = IF pc[t] = "done" THEN 1 ELSE 0)
  /\ [][\A t \in Threads :
          pc[t] = "unpark" /\ pc'[t] # "unpark" =>
            pc'[t] = "shrink" /\ nrWaiting' = nrWaiting - 1]_vars

\* C6 witness: a thread that was waiting when the flag was set has
\* terminated, and a job it did not pop is still queued
C6_Witness ==
  \E t \in Threads :
    /\ atStop[t] = "waiting"
    /\ pc[t] = "done"
    /\ removed[t] = 1
    /\ readyJobs # <<>>

\* C11 as stated: an object thrown by handleError, like one thrown by
\* cleanup, is logged and discarded when the shutdown flag is not set and
\* leaves handleJob, unwinding the thread, when the flag is set.
C11_FailuresPropagateWhenStopping ==
  [][\A t \in Threads :
       /\ pc[t] = "handleError" /\ heRes'[t] = "threw" =>
            pc'[t] = IF stopping THEN "cancelled" ELSE "cleanup"
       /\ pc[t] = "cleanup_catch" /\ pc'[t] # "cleanup_catch" =>
            pc'[t] = IF stopping THEN "cancelled" ELSE "pop"]_vars

\* the positions between ++_nrWaiting (line 91) and the matching
\* --_nrWaiting (line 96 or line 104)
Announced == {"lock", "recheck", "wait", "abort", "waiting", "woken", "unpark"}

\* what thread t counts for in nrRunning + nrWaiting: one while it is
\* registered with the queue, one more while it has announced a park
Own(t) ==
  (IF removed[t] = 0 THEN 1 ELSE 0) + (IF pc[t] \in Announced THEN 1 ELSE 0)

RECURSIVE SumOwn(_)
SumOwn(S) ==
  IF S = {} THEN 0
  ELSE LET t == CHOOSE x \in S : TRUE IN Own(t) + SumOwn(S \ {t})

\* the pool's running+waiting count
PoolCount == nrRunning + nrWaiting

Taking == {t \in Threads : pc[t] = "take"}

\* C13: numberJobs counts the jobs that are queued or popped and not yet
\* accounted for: a thread's steps change it only by the decrement by one
\* that follows each successful pop, and once all enqueued jobs are drained
\* it is back to 0.
C13_NumberJobsBackToZero ==
  /\ [](numberJobs = Len(readyJobs) + Cardinality(Taking))
  /\ [](Drained => numberJobs = 0)
  /\ [][\A t \in Threads :
          /\ pc[t] = "take" /\ pc'[t] # "take" => numberJobs' = numberJobs - 1
          /\ pc[t] # "take" /\ pc'[t] # pc[t] => numberJobs' = numberJobs]_vars

\* C13 witness: every job the producer had to enqueue was handed to
\* handleJob by some thread, the queue is empty, no job is in flight and the
\* counter reads 0
C13_Witness ==
  /\ Drained
  /\ numberJobs = 0
  /\ \A j \in 1..lastJob : handed[j] = 1
  /\ lastJob = MaxJobs

\* the value the report gives for a field, once addStatus has added it
Reported(field) ==
  LET i == CHOOSE k \in 1..Len(status) : status[k][1] = field IN status[i][2]

\* C14: a call of addStatus, interleaved in any way with the steps of the
\* threads, of the producer and of the shutdown, changes none of stopping,
\* numberJobs, nrRunning, nrWaiting, nrBlocked and the queue of ready jobs,
\* and each of its statements adds to the report the value its variable
\* holds at that step, under the field names queue, stopping, waitingJobs,
\* numberRunning, numberWaiting, numberBlocked, in that order.
C14_StatusObservational ==
  /\ [](pcS = "return" =>
          /\ Len(status) = 6
          /\ \A i \in 1..6 : status[i][1] = StatusFields[i])
  /\ [][pcS' # pcS =>
          /\ UNCHANGED <<stopping, numberJobs, nrRunning, nrWaiting, nrBlocked,
                         readyJobs>>
          /\ pcS = "stopping" => status' = Append(status, <<"stopping", stopping>>)
          /\ pcS = "waitingJobs" => status' = Append(status, <<"waitingJobs", numberJobs>>)
          /\ pcS = "numberRunning" => status' = Append(status, <<"numberRunning", nrRunning>>)
          /\ pcS = "numberWaiting" => status' = Append(status, <<"numberWaiting", nrWaiting>>)
          /\ pcS = "numberBlocked" => status' = Append(status, <<"numberBlocked", nrBlocked>>)]_vars

\* C14 witness: a complete report whose values are stale: since they were
\* read the shutdown flag was set, the job counted as waiting was popped, a
\* thread deregistered and the thread counted as parked and the thread
\* counted as blocked moved on
C14_Witness ==
  /\ pcS = "return"
  /\ Reported("stopping") = FALSE /\ stopping
  /\ Reported("waitingJobs") = 1 /\ numberJobs = 0
  /\ Reported("numberRunning") = NThreads /\ nrRunning < NThreads
  /\ Reported("numberWaiting") = 1 /\ nrWaiting = 0
  /\ Reported("numberBlocked") = 1 /\ nrBlocked = 0

\* the positions of the drain phase and of the micro-sleep
DrainOrSleep == {"pop", "take", "usleep"} \cup InHandleJob

\* C15: tooManyThreads() is consulted only by a thread that has just ended
\* a wait on waitLock and released its parked count, never from the drain
\* phase or after a micro-sleep, and its answer is the only way out of the
\* loop besides the shutdown flag: a thread whose run() is over or is
\* ending without a true answer of tooManyThreads() found the flag set.
C15_ShrinkOnlyAfterPark ==
  /\ [](\A t \in Threads :
          /\ pc[t] \in {"exit", "done"} /\ ~brokeOut[t] => stopping
          /\ pc[t] = "cancelled" => stopping
          /\ brokeOut[t] => pc[t] \in {"exit", "done"})
  /\ [][\A t \in Threads :
          /\ pc'[t] = "shrink" /\ pc[t] # "shrink" => pc[t] = "unpark"
          /\ pc'[t] = "unpark" /\ pc[t] # "unpark" => pc[t] = "woken"
          /\ pc'[t] = "woken" /\ pc[t] # "woken" => pc[t] = "waiting"
          /\ brokeOut'[t] # brokeOut[t] => pc[t] = "shrink"
          /\ pc'[t] = "exit" /\ pc[t] # "exit" =>
               \/ pc[t] = "shrink" /\ brokeOut'[t]
               \/ pc[t] = "head" /\ stopping
          /\ pc[t] \in DrainOrSleep => pc'[t] \notin {"shrink", "exit", "done"}]_vars

\* C15 witness: with the shutdown flag not set, tooManyThreads() has
\* answered true to one thread, which is gone, while another thread, which
\* has executed a job, is in a micro-sleep and stays in the loop
C15_Witness ==
  \E t, u \in Threads :
    /\ ~stopping
    /\ pc[t] = "usleep"
    /\ \E j \in Jobs : handed[j] = 1 /\ Count(hooks[j], "cleanup") = 1
    /\ worked[t] > 0
    /\ brokeOut[u]
    /\ pc[u] = "done"

\* the threads that have announced a park and not yet released it
Parking == {t \in Threads : pc[t] \in Announced}

\* C16: nrWaiting is the number of threads between the increment at line 91
\* and the matching decrement, hence between 0 and the number of threads
\* whose run() has not ended, and a terminated thread counts for 0; a thread
\* whose re-check under waitLock finds a job queued does not wait: it
\* decrements nrWaiting, releases waitLock and is back at the loop condition.
C16_NrWaitingCountsParking ==
  /\ [](nrWaiting = Cardinality(Parking))
  /\ [](0 <= nrWaiting /\ nrWaiting <= Cardinality({t \in Threads : Alive(t)}))
  /\ [](\A t \in Threads : pc[t] = "abort" => waitLock = t)
  /\ [][\A t \in Threads :
          /\ pc[t] = "park" /\ pc'[t] # "park" =>
               pc'[t] = "lock" /\ nrWaiting' = nrWaiting + 1
          /\ pc[t] = "recheck" /\ pc'[t] # "recheck" =>
               pc'[t] = IF readyJobs # <<>> THEN "abort" ELSE "wait"
          /\ pc[t] = "abort" /\ pc'[t] # "abort" =>
               /\ pc'[t] = "head"
               /\ nrWaiting' = nrWaiting - 1
               /\ waitLock' = NoThread
          /\ pc[t] = "unpark" /\ pc'[t] # "unpark" => nrWaiting' = nrWaiting - 1
          /\ pc[t] \notin {"park", "abort", "unpark"} /\ pc'[t] # pc[t] =>
               nrWaiting' = nrWaiting]_vars

\* C16 witness: a thread that announced a park has found, under waitLock, a
\* job in the queue and is aborting the park, while the other thread is in
\* its wait: both are counted
C16_Witness ==
  \E t, u \in Threads :
    /\ pc[t] = "abort"
    /\ waitLock = t
    /\ readyJobs # <<>>
    /\ pc[u] = "waiting"
    /\ nrWaiting = 2

\* C17 as stated: lastWorked is the wall-clock time of the thread's most
\* recent successful pop, and when a drain ends on an empty queue the thread,
\* with idle = now - lastWorked, parks when idle >= grace, micro-sleeps when
\* 0 < idle < grace and does neither when idle = 0.
C17_Original ==
  [][\A t \in Threads :
       /\ pc[t] = "pop" /\ pc'[t] = "take" => now[t] = clock
       /\ pc[t] = "take" /\ pc'[t] # "take" => worked'[t] = now[t]
       /\ pc[t] = "pop" /\ pc'[t] \notin {"pop", "take"} =>
            LET idle == now[t] - worked[t] IN
              pc'[t] = IF idle >= grace THEN "park"
                       ELSE IF 0 < idle THEN "usleep"
                       ELSE "head"]_vars

\* C17 amended: now is the wall-clock time read at the top of the loop
\* iteration, before the drain, and lastWorked is the value of now in the
\* iteration of the thread's most recent successful pop (0 before the first
\* one), which is at or before the time of that pop; when the drain ends on
\* an empty queue the thread, with idle = now - lastWorked, parks when
\* idle > grace, micro-sleeps when 0 < idle <= grace and does neither when
\* idle = 0.
C17_IdleDecision ==
  /\ [](\A t \in Threads : worked[t] <= clock /\ now[t] <= clock)
  /\ [][\A t \in Threads :
          /\ pc[t] = "head" /\ pc'[t] = "pop" => now'[t] = clock
          /\ pc[t] = "pop" /\ pc'[t] = "take" => now'[t] = now[t]
          /\ pc[t] = "take" /\ pc'[t] # "take" => worked'[t] = now[t]
          /\ pc[t] # "take" => worked'[t] = worked[t]
          /\ pc[t] = "pop" /\ pc'[t] \notin {"pop", "take"} =>
               LET idle == now[t] - worked[t] IN
                 /\ readyJobs = <<>>
                 /\ idle >= 0
                 /\ pc'[t] = IF idle > grace THEN "park"
                             ELSE IF 0 < idle THEN "usleep"
                             ELSE "head"]_vars

\* C17 witness: a thread that has popped a job is in a micro-sleep while the
\* wall clock reads exactly lastWorked + grace: the now of its idle decision,
\* after lastWorked and not after the clock, was lastWorked + grace
C17_Witness ==
  \E t \in Threads :
    /\ pc[t] = "usleep"
    /\ worked[t] > 0
    /\ clock = worked[t] + grace

\* one millisecond, in microseconds
Msec == 1000

HookOrders == {<<"mark", "work", "cleanup">>,
               <<"mark", "work", "handleError", "cleanup">>}

\* s is an initial part of r
IsPrefix(s, r) == Len(s) <= Len(r) /\ \A i \in 1..Len(s) : s[i] = r[i]

\* C19: the hooks called on a job are, in this order, the queue-exit mark,
\* work() (at most once), handleError (at most once, and only when work()
\* threw, never after a work() that returned) and cleanup; each step of
\* handleJob calls at most one hook, and cleanup is not called before work()
\* has returned or thrown.
C19_HookOrder ==
  /\ [](\A j \in Jobs : \E r \in HookOrders : IsPrefix(hooks[j], r))
  /\ [](\A t \in Threads :
          job[t] # NoJob /\ pc[t] # "take" =>
            /\ Count(hooks[job[t]], "handleError") = 1 =>
                 workRes[t] # NoThrow /\ heRes[t] # "none"
            /\ workRes[t] = NoThrow => Count(hooks[job[t]], "handleError") = 0
            /\ Count(hooks[job[t]], "cleanup") = 1 =>
                 Count(hooks[job[t]], "work") = 1 /\ clRes[t] # "none")
  /\ [][\A j \in Jobs :
          hooks'[j] # hooks[j] =>
            /\ \E h \in {"mark", "work", "handleError", "cleanup"} :
                 hooks'[j] = Append(hooks[j], h)
            /\ \E t \in Threads : job[t] = j /\ pc'[t] # pc[t]]_vars

\* C19 witness: one job has had the four hooks called, after a work() that
\* threw a domain error, and the other job the three hooks of a pass whose
\* work() returned
C19_Witness ==
  \E t, u \in Threads :
    /\ Returned(t)
    /\ workRes[t] = DomainError
    /\ hooks[job[t]] = <<"mark", "work", "handleError", "cleanup">>
    /\ Returned(u)
    /\ workRes[u] = NoThrow
    /\ hooks[job[u]] = <<"mark", "work", "cleanup">>

\* the positions at which a thread holds the mutex of waitLock: from the
\* CONDITION_LOCKER to the wait, and from the return of the wait to the end
\* of the park block
HoldsLock == {"recheck", "wait", "abort", "unpark", "shrink"}

\* the positions at which a thread is blocked until the mutex is free
NeedsLock == {"lock", "woken"}

\* C20: a thread holds the mutex of waitLock exactly from its acquisition
\* for the re-check to the wait, and from the return of the wait to the end
\* of the park block; the abort of the park, the wait and the end of the
\* block (break or not) release it, so that it is never held by a thread
\* that executes a job, micro-sleeps or has terminated; whenever a thread
\* holds it, it is eventually free again, and a thread that needs it
\* eventually gets it.
C20_WaitLockHeldOnlyInParkBlock ==
  /\ [](waitLock \in Threads \cup {NoThread})
  /\ [](\A t \in Threads : waitLock = t <=> pc[t] \in HoldsLock)
  /\ [][\A t \in Threads :
          /\ pc[t] \in {"wait", "abort", "shrink"} /\ pc'[t] # pc[t] =>
               waitLock = t /\ waitLock' = NoThread
          /\ pc[t] \in NeedsLock /\ pc'[t] # pc[t] =>
               waitLock = NoThread /\ waitLock' = t]_vars
  /\ \A t \in Threads : (waitLock = t) ~> (waitLock = NoThread)
  /\ \A t \in Threads : (pc[t] \in NeedsLock) ~> (waitLock = t)

\* C20 witness: a thread that has woken needs the mutex while another
\* thread, which has also ended its wait, holds it at the shrink check
C20_Witness ==
  \E t, u \in Threads :
    /\ pc[t] = "shrink"
    /\ waitLock = t
    /\ pc[u] = "woken"

====
